---- MODULE Spec2Model ----
(***************************************************************************)
(* Image generation routes of story-creator.                               *)
(*                                                                         *)
(* The Replicate route (src/unnamed/part_001) serves four actions through  *)
(* five backend helpers: replicateRunVersion (create, then poll by id),    *)
(* grokImageEdit (one synchronous call), wan25ImageEdit (async task),      *)
(* falWan25ImageEdit (queue submit / status / result) and                  *)
(* runpodComfyUIImageEdit (job runner).  The Stability route               *)
(* (src/unnamed/part_002) generates characters by walking an ordered list  *)
(* of endpoints.                                                           *)
(*                                                                         *)
(* One request is in progress at a time.  Every await of the code is one   *)
(* step of the model: a network call is counted when it is issued and the  *)
(* step that receives its response runs the code up to the next await.     *)
(* Time is in milliseconds, measured from the arrival of the request (the  *)
(* code only ever reads differences of Date.now()).                        *)
(***************************************************************************)
EXTENDS Integers, Sequences, FiniteSets, TLC

\* ------------------------------------------------------------ constants

\* replicateRunVersion: `for (let attempt = 0; attempt < 3; attempt++)`
MaxAttempts == 3
\* replicateRunVersion: `setTimeout(r, 2000 * (attempt + 1))`
BackoffMs == 2000
ReplicateTimeoutMs == 90000
ReplicatePollMs == 2000
WanTimeoutMs == 90000
WanPollMs == 3000
FalTimeoutMs == 120000
FalPollMs == 3000
RunpodTimeoutMs == 120000
RunpodPollMs == 3000

\* The time a poll request may take to come back: none, or NetDelayMs (a
\* single slow answer then uses up the deadline of any of the poll loops).
NetDelayMs == 120000

Latencies == {0, NetDelayMs}

TimeoutMs(a) ==
  CASE a = "replicate" -> ReplicateTimeoutMs
    [] a = "wan" -> WanTimeoutMs
    [] a = "fal" -> FalTimeoutMs
    [] OTHER -> RunpodTimeoutMs

PollMs(a) ==
  CASE a = "replicate" -> ReplicatePollMs
    [] a = "wan" -> WanPollMs
    [] a = "fal" -> FalPollMs
    [] OTHER -> RunpodPollMs

\* The most polls a loop of `a` can issue: one per pollInterval of the deadline.
MaxPolls(a) == (TimeoutMs(a) + PollMs(a) - 1) \div PollMs(a)

\* ---------------------------------------------------------------- state

VARIABLES
  env,        \* which process.env credentials are non-empty
  route,      \* "none" | "replicate" (part_001) | "stability" (part_002)
  pc,         \* the await the request is suspended at, or "idle" / "done"
  handler,    \* "none" | "character" | "expression" | "background" | "keyart"
  adapter,    \* "none" | "replicate" | "runpod" | "fal" | "wan" | "grok"
  attempt,    \* replicateRunVersion's loop variable
  now,        \* Date.now(), relative to the arrival of the request
  startTime,  \* the poll loop's startTime
  createLog,  \* the answers to the create / submit calls so far, in order
  lastPoll,   \* kind of the last poll response received
  sawOther,   \* some poll response before the last was not a plain "running"
  payload,    \* what the adapter resolved from: "none" | "inline" | "reference"
  calls,      \* network calls issued in this request, by kind
  waits,      \* the backoff waits of replicateRunVersion, in order
  failure,    \* the error an adapter threw: "none" or its kind
  response,   \* the NextResponse of the request
  endpoints,  \* part_002: the endpoint list being walked
  tried,      \* part_002: the endpoints fetched so far, in order
  answers,    \* part_002: the answers of the endpoints fetched, in order
  errlog,     \* part_002: the console.error lines of the walk, in order
  inflight,   \* the fetches issued and not yet settled, oldest first
  cleanup,    \* what the removeBackgroundAPI call answered, or "none"
  asset,      \* part_005: the image removeBackground is first called with
  premultiplied, \* part_005: the canvas keeps no colour for alpha-0 pixels
  stage,      \* part_005: "idle" | "loading" | "resolved" | "threw"
  run,        \* part_005: 0, or which call of removeBackground this is
  input,      \* part_005: the dataUrl argument of the current call
  result,     \* part_005: the value the promise resolved with
  resolvedBy, \* part_005: which resolve(...) ran, per call
  removedCount, \* part_005: removedCount of each call that counted
  job,        \* what the create / submit answer carried about the job
  urls,       \* the adapter's statusUrl / pollUrl and resultUrl
  completion, \* runpod: the shape of the COMPLETED payload
  autoSaveStatus, \* useAutoSave: the `status` state
  timerRef,   \* useAutoSave: ms until the debounce timer fires, or NoTimer
  savedTimerRef, \* useAutoSave: ms until the referenced reset timer fires, or NoTimer
  orphans,    \* useAutoSave: ms left of reset timers no ref points at
  saving,     \* useAutoSave: the onSave calls in flight
  coins,      \* firestore-utils: userWallets/<uid>.coins
  wpc,        \* firestore-utils: where each wallet call is
  wop,        \* firestore-utils: each call's function
  wamt,       \* firestore-utils: each call's amount
  wseen,      \* firestore-utils: the coins each call read
  credited,   \* firestore-utils: sum of the amounts of finished addCoins
  debited     \* firestore-utils: sum of the amounts deductCoins returned true for

vars == <<env, route, pc, handler, adapter, attempt, now, startTime, createLog,
          lastPoll, sawOther, payload, calls, waits, failure, response,
          endpoints, tried, answers, errlog,
          inflight, cleanup,
          asset, premultiplied, stage, run, input, result, resolvedBy,
          removedCount, job, urls, completion,
          autoSaveStatus, timerRef, savedTimerRef, orphans, saving,
          coins, wpc, wop, wamt, wseen, credited, debited>>

EnvKeys == {"REPLICATE_API_TOKEN", "STABILITY_API_KEY", "XAI_API_KEY",
            "DASHSCOPE_API_KEY", "FAL_KEY", "RUNPOD_API_KEY", "RUNPOD_ENDPOINT_ID"}

\* The four actions of the Replicate route, and one that is none of them.
Actions == {"generate_character", "generate_expression",
            "generate_background", "generate_keyart", "unknown"}

\* A fetch answers 2xx, 429, another non-2xx status, or rejects.
FetchOutcomes == {"ok", "rateLimited", "error", "throws"}

\* What a status poll can bring back: a non-2xx status, a job still queued
\* or running, a job succeeded, failed or canceled, or a rejected fetch.
PollOutcomes == {"notOk", "running", "succeeded", "failed", "canceled", "throws"}

\* The credential sets the model starts from: the Replicate token and the
\* Stability key are set or not independently; of the edit backends, in
\* priority order RunPod, fal.ai, DashScope, xAI, every backend after the
\* first configured one is configured too (so a failing backend always has
\* configured successors), and RunPod may lack its endpoint id.
Envs ==
  {e \in [EnvKeys -> BOOLEAN] :
     /\ e["RUNPOD_ENDPOINT_ID"] => e["RUNPOD_API_KEY"]
     /\ (e["RUNPOD_API_KEY"] /\ e["RUNPOD_ENDPOINT_ID"]) => e["FAL_KEY"]
     /\ e["FAL_KEY"] => e["DASHSCOPE_API_KEY"]
     /\ e["DASHSCOPE_API_KEY"] => e["XAI_API_KEY"]}

NoCalls == [create |-> 0, poll |-> 0, result |-> 0, download |-> 0, rembg |-> 0]

NoResponse ==
  [sent |-> FALSE, status |-> 0, imageUrl |-> "absent", error |-> "absent",
   message |-> FALSE, details |-> <<>>]

\* NextResponse.json(body, {status}).  imageUrl: "absent", "null", or the
\* image; error: "absent" or the kind of the error string; message: the
\* body has a `message`; details: the adapter errors the error string quotes.
Json(status, imageUrl, error, message, details) ==
  [sent |-> TRUE, status |-> status, imageUrl |-> imageUrl, error |-> error,
   message |-> message, details |-> details]

Issue(kind) == [calls EXCEPT ![kind] = @ + 1]

\* What a create / submit body says of the job: its state, and whether it
\* carries a status URL (urls.get, status_url) and a result URL (response_url).
NoJob == [state |-> "none", statusUrl |-> FALSE, resultUrl |-> FALSE]

Job(state, statusUrl, resultUrl) ==
  [state |-> state, statusUrl |-> statusUrl, resultUrl |-> resultUrl]

\* The URLs an adapter polls and fetches the result from: "none", the one
\* "returned" by the create / submit call, or one "built" from the job id.
NoUrls == [status |-> "none", result |-> "none"]

\* runpod: no COMPLETED payload has been received.
NoCompletion == [images |-> "unset", message |-> "unset"]

\* Mutant of ReturnedOrBuilt: the URL is always rebuilt from the id.
BuiltAlways(returned) == "built"

\* `prediction.urls?.get || ...`, `submitData.status_url || ...`,
\* `submitData.response_url || ...`
ReturnedOrBuilt(returned) == IF returned THEN "returned" ELSE "built"

stabilityVars == <<endpoints, tried, answers, errlog>>
matVars == <<asset, premultiplied, stage, run, input, result, resolvedBy,
             removedCount>>
pollVars == <<startTime, lastPoll, sawOther>>
saveVars == <<autoSaveStatus, timerRef, savedTimerRef, orphans, saving>>
walletVars == <<coins, wpc, wop, wamt, wseen, credited, debited>>
routeVars == <<env, route, pc, handler, adapter, attempt, now, createLog,
               pollVars, payload, calls, waits, failure, response,
               stabilityVars, inflight, cleanup, job, urls, completion>>

\* Mutant of Settle: the fetch is not awaited, its promise stays pending.
SettleNothing(q) == q

\* `await fetch(...)` resumes: the oldest pending fetch is settled.
Settle(q) == Tail(q)

\* The fetches pending after a step that left `settled` pending and issued
\* what `calls` says it issued.
Pending(settled) ==
  LET issued == {k \in DOMAIN calls : calls'[k] > calls[k]}
  IN  inflight' = IF issued = {} THEN settled
                  ELSE Append(settled, CHOOSE k \in issued : TRUE)

\* A data URL that is not an image: img.onerror fires for it.
Undecodable == [w |-> 0, h |-> 0, px |-> <<>>]

\* An image that loads with img.width = 0 (one with no intrinsic width).
ZeroWidth == [w |-> 0, h |-> 1, px |-> <<>>]

\* No request is being handled.
RoutesAtRest ==
  /\ route = "none"
  /\ pc = "idle"
  /\ handler = "none"
  /\ adapter = "none"
  /\ attempt = 0
  /\ now = 0
  /\ startTime = 0
  /\ createLog = <<>>
  /\ lastPoll = "none"
  /\ sawOther = FALSE
  /\ payload = "none"
  /\ calls = NoCalls
  /\ waits = <<>>
  /\ failure = "none"
  /\ response = NoResponse
  /\ endpoints = <<>>
  /\ tried = <<>>
  /\ answers = <<>>
  /\ errlog = <<>>
  /\ inflight = <<>>
  /\ cleanup = "none"
  /\ job = NoJob
  /\ urls = NoUrls
  /\ completion = NoCompletion

\* removeBackground has not been called.
MattingAtRest ==
  /\ stage = "idle"
  /\ run = 0
  /\ input = Undecodable
  /\ result = Undecodable
  /\ resolvedBy = <<>>
  /\ removedCount = <<>>

\* Number of concurrent wallet calls, and the balance the wallet opens with.
MaxCallers == 3
OpeningCoins == 3

Callers == 1..MaxCallers

\* A ref whose timer is null, has fired or was cleared.
NoTimer == 0 - 1

\* useAutoSave has just been mounted: useState('idle'), useRef(null).
SaveAtRest ==
  /\ autoSaveStatus = "idle"
  /\ timerRef = NoTimer
  /\ savedTimerRef = NoTimer
  /\ orphans = {}
  /\ saving = 0

\* No wallet call has been made.
WalletAtRest ==
  /\ coins = OpeningCoins
  /\ wpc = [p \in Callers |-> "idle"]
  /\ wop = [p \in Callers |-> "none"]
  /\ wamt = [p \in Callers |-> 0]
  /\ wseen = [p \in Callers |-> 0]
  /\ credited = 0
  /\ debited = 0

Init ==
  /\ env \in Envs
  /\ RoutesAtRest
  /\ asset = Undecodable
  /\ premultiplied = FALSE
  /\ MattingAtRest
  /\ SaveAtRest
  /\ WalletAtRest

\* ------------------------------------------------ part_001: the handlers

\* An error thrown inside a handler's try block: its catch answers
\* {error: '... failed: <error.message>'} with status 500.
Catch(kind) ==
  /\ failure' = kind
  /\ response' = Json(500, "absent", "handlerFailed", FALSE, <<kind>>)
  /\ pc' = "done"

\* The handler answers {imageUrl}.
Reply(imageUrl) ==
  /\ failure' = failure
  /\ response' = Json(200, imageUrl, "absent", FALSE, <<>>)
  /\ pc' = "done"

\* handleExpressionGeneration's choice of backend.
SelectEditAdapter ==
  IF env["RUNPOD_API_KEY"] /\ env["RUNPOD_ENDPOINT_ID"] THEN "runpod"
  ELSE IF env["FAL_KEY"] THEN "fal"
  ELSE IF env["DASHSCOPE_API_KEY"] THEN "wan"
  ELSE "grok"

\* POST's gate on the Replicate token.
ReplicateConfigured == env["REPLICATE_API_TOKEN"]

HandlerOf(action) ==
  CASE action = "generate_character" -> "character"
    [] action = "generate_expression" -> "expression"
    [] action = "generate_background" -> "background"
    [] action = "generate_keyart" -> "keyart"
    [] OTHER -> "none"

\* POST, and the handler it dispatches to, up to the handler's first fetch.
\* bodyOk: req.json() parses and the fields the handler reads are strings.
\* hasBase: baseImageUrl is a non-empty string.
POST(action, bodyOk, hasBase) ==
  /\ pc = "idle"
  /\ route' = "replicate"
  /\ UNCHANGED <<env, attempt, now, createLog, pollVars, payload, waits, failure,
                 stabilityVars>>
  /\ IF ~ReplicateConfigured
     THEN /\ handler' = "none" /\ adapter' = "none" /\ calls' = NoCalls
          /\ response' = Json(500, "absent", "notConfigured", FALSE, <<>>)
          /\ pc' = "done"
     ELSE IF ~bodyOk
     THEN /\ handler' = "none" /\ adapter' = "none" /\ calls' = NoCalls
          /\ response' = Json(500, "absent", "internal", FALSE, <<>>)
          /\ pc' = "done"
     ELSE IF action = "unknown"
     THEN /\ handler' = "none" /\ adapter' = "none" /\ calls' = NoCalls
          /\ response' = Json(400, "absent", "unknownAction", FALSE, <<>>)
          /\ pc' = "done"
     ELSE IF action = "generate_expression"
     THEN /\ handler' = "expression"
          /\ IF ~hasBase
             THEN /\ adapter' = "none" /\ calls' = NoCalls
                  /\ response' = Json(200, "null", "absent", TRUE, <<>>)
                  /\ pc' = "done"
             ELSE /\ adapter' = SelectEditAdapter
                  /\ calls' = [NoCalls EXCEPT !.create = 1]
                  /\ response' = NoResponse
                  /\ pc' = "submit"
     ELSE /\ handler' = HandlerOf(action)
          /\ adapter' = "replicate"
          /\ calls' = [NoCalls EXCEPT !.create = 1]
          /\ response' = NoResponse
          /\ pc' = "create"
  /\ Pending(inflight)
  /\ UNCHANGED <<cleanup, job, urls, completion>>
  /\ UNCHANGED <<matVars, saveVars, walletVars>>

\* The response has been returned: the request's locals are gone and the
\* routes, which keep nothing between requests, await the next request.
RequestEnds ==
  /\ pc = "done"
  /\ pc' = "idle"
  /\ route' = "none"
  /\ handler' = "none"
  /\ adapter' = "none"
  /\ attempt' = 0
  /\ now' = 0
  /\ startTime' = 0
  /\ createLog' = <<>>
  /\ lastPoll' = "none"
  /\ sawOther' = FALSE
  /\ payload' = "none"
  /\ calls' = NoCalls
  /\ waits' = <<>>
  /\ failure' = "none"
  /\ response' = NoResponse
  /\ endpoints' = <<>>
  /\ tried' = <<>>
  /\ answers' = <<>>
  /\ errlog' = <<>>
  /\ UNCHANGED env
  /\ inflight' = <<>>
  /\ cleanup' = "none"
  /\ job' = NoJob
  /\ urls' = NoUrls
  /\ completion' = NoCompletion
  /\ UNCHANGED <<matVars, saveVars, walletVars>>

\* Mutant of WithinDeadline: the deadline itself still counts as in time.
WithinDeadlineInclusive(a, t, start) == t - start <= TimeoutMs(a)

\* The condition of `while (Date.now() - startTime < timeoutMs)`.
WithinDeadline(a, t, start) == t - start < TimeoutMs(a)

\* The head of a poll loop, reached at time t: sleep, or give up.
PollLoop(a, t, start) ==
  IF WithinDeadline(a, t, start)
  THEN /\ pc' = "sleep" /\ failure' = failure /\ response' = response
  ELSE Catch("timedOut")

\* The error a non-2xx create / submit answer is thrown as.
HttpFailure(status) == IF status = "rateLimited" THEN "rateLimited" ELSE "http"

\* Mutant of RetryCreate: the retry branch is gone.
RetryNever(status, att) == FALSE

\* Mutant of RetryCreate: the retry guard is off by one (attempt < 3).
RetryCreateOffByOne(status, att) == status = "rateLimited" /\ att < MaxAttempts

\* Mutant of RetryCreate: every non-OK create answer is retried.
RetryAnyFailure(status, att) ==
  status \in {"rateLimited", "error"} /\ att < MaxAttempts - 1

\* replicateRunVersion retries the create call on 429 while attempt < 2.
RetryCreate(status, att) == status = "rateLimited" /\ att < MaxAttempts - 1

\* Mutant of Backoff: the same wait before every retry.
BackoffFlat(att) == BackoffMs

\* replicateRunVersion: `2000 * (attempt + 1)`
Backoff(att) == BackoffMs * (att + 1)

\* replicateRunVersion: the create answer's states that return or throw
\* before the poll loop.
CreateIsTerminal(pstatus) == pstatus \in {"succeeded", "failed"}

\* The error an adapter throws for a failed or canceled job.
BackendFailure(r) == IF r = "canceled" THEN "canceled" ELSE "backendFailed"

\* The handler's code after replicateRunVersion returned `output`.
AfterReplicate(output) ==
  IF output = "empty"
  THEN /\ failure' = failure
       /\ response' = Json(500, "absent", "generationFailed", FALSE, <<>>)
       /\ pc' = "done"
       /\ calls' = calls
  ELSE /\ failure' = failure
       /\ response' = response
       /\ pc' = "download"
       /\ calls' = Issue("download")

\* replicateRunVersion: the create call answers.
\* pstatus: prediction.status; output: prediction.output.  (pollUrl is
\* prediction.urls.get, or is built from prediction.id: either way it is
\* the status endpoint of this prediction, and the model keeps one.)
ReplicateCreateResponds(status, pstatus, output) ==
  /\ pc = "create"
  /\ createLog' = Append(createLog, status)
  /\ job' = IF status = "ok" THEN Job(pstatus, FALSE, FALSE) ELSE job
  /\ UNCHANGED <<env, route, handler, adapter, attempt, now, lastPoll, sawOther,
                 payload, stabilityVars>>
  /\ IF status = "throws"
     THEN Catch("transport") /\ UNCHANGED <<calls, waits, startTime>>
     ELSE IF RetryCreate(status, attempt)
     THEN /\ waits' = Append(waits, Backoff(attempt))
          /\ pc' = "backoff"
          /\ UNCHANGED <<calls, failure, response, startTime>>
     ELSE IF status # "ok"
     THEN Catch(HttpFailure(status)) /\ UNCHANGED <<calls, waits, startTime>>
     ELSE IF CreateIsTerminal(pstatus)
     THEN IF pstatus = "succeeded"
          THEN AfterReplicate(output) /\ UNCHANGED <<waits, startTime>>
          ELSE Catch(BackendFailure(pstatus)) /\ UNCHANGED <<calls, waits, startTime>>
     ELSE /\ startTime' = now
          /\ PollLoop("replicate", now, now)
          /\ UNCHANGED <<calls, waits>>
  /\ Pending(Settle(inflight))
  /\ UNCHANGED <<cleanup, urls, completion>>
  /\ UNCHANGED <<matVars, saveVars, walletVars>>

\* replicateRunVersion: the backoff timer fires and the create call is re-issued.
ReplicateBackoffElapses ==
  /\ pc = "backoff"
  /\ now' = now + waits[Len(waits)]
  /\ attempt' = attempt + 1
  /\ calls' = Issue("create")
  /\ pc' = "create"
  /\ UNCHANGED <<env, route, handler, adapter, createLog, pollVars, payload,
                 waits, failure, response, stabilityVars>>
  /\ Pending(inflight)
  /\ UNCHANGED <<cleanup, job, urls, completion>>
  /\ UNCHANGED <<matVars, saveVars, walletVars>>

\* A poll loop's sleep ends and the status request is sent.
PollSleepElapses ==
  /\ pc = "sleep"
  /\ now' = now + PollMs(adapter)
  /\ calls' = Issue("poll")
  /\ pc' = "poll"
  /\ UNCHANGED <<env, route, handler, adapter, attempt, createLog, pollVars,
                 payload, waits, failure, response, stabilityVars>>
  /\ Pending(inflight)
  /\ UNCHANGED <<cleanup, job, urls, completion>>
  /\ UNCHANGED <<matVars, saveVars, walletVars>>

\* What each poll loop does with a poll answer: "throw" (the fetch rejected),
\* "continue" (next iteration), "resolve" (success branch) or "fail" (throw
\* the backend's failure).
ReplicatePollStatus(r) ==
  CASE r = "throws" -> "throw"
    [] r = "succeeded" -> "resolve"
    [] r \in {"failed", "canceled"} -> "fail"
    [] OTHER -> "continue"

\* Mutant of WanPollStatus: SUCCEEDED is not recognised.
WanPollStatusMissesSuccess(r) ==
  CASE r = "throws" -> "throw"
    [] r = "failed" -> "fail"
    [] OTHER -> "continue"

WanPollStatus(r) ==
  CASE r = "throws" -> "throw"
    [] r = "succeeded" -> "resolve"
    [] r = "failed" -> "fail"
    [] OTHER -> "continue"

FalPollStatus(r) ==
  CASE r = "throws" -> "throw"
    [] r = "succeeded" -> "resolve"
    [] r = "failed" -> "fail"
    [] OTHER -> "continue"

RunpodPollStatus(r) ==
  CASE r = "throws" -> "throw"
    [] r = "succeeded" -> "resolve"
    [] r = "failed" -> "fail"
    [] OTHER -> "continue"

\* sawOther, once one more poll answer has arrived.
EarlierOther == sawOther \/ lastPoll \notin {"none", "running"}

\* replicateRunVersion: a status poll answers, after d ms.  (In all four poll
\* loops the clock is read next by the loop condition, so the time an answer
\* took is counted only when the loop goes on.)
ReplicatePollResponds(r, output, d) ==
  /\ pc = "poll" /\ adapter = "replicate"
  /\ ReplicatePollStatus(r) # "continue" => d = 0
  /\ now' = now + d
  /\ lastPoll' = r
  /\ sawOther' = EarlierOther
  /\ UNCHANGED <<env, route, handler, adapter, attempt, startTime, createLog,
                 payload, waits, stabilityVars>>
  /\ CASE ReplicatePollStatus(r) = "throw" -> Catch("transport") /\ UNCHANGED calls
       [] ReplicatePollStatus(r) = "continue" ->
            PollLoop("replicate", now + d, startTime) /\ UNCHANGED calls
       [] ReplicatePollStatus(r) = "resolve" -> AfterReplicate(output)
       [] ReplicatePollStatus(r) = "fail" ->
            Catch(BackendFailure(r)) /\ UNCHANGED calls
  /\ Pending(Settle(inflight))
  /\ UNCHANGED <<cleanup, job, urls, completion>>
  /\ UNCHANGED <<matVars, saveVars, walletVars>>

\* Mutant of CleanedOrOriginal: the `|| imageDataUri` fallback is dropped.
CleanedOnly(cleaned) == cleaned

\* handleCharacterGeneration: `cleaned || imageDataUri`.
CleanedOrOriginal(cleaned) == IF cleaned = "null" THEN "image" ELSE cleaned

\* urlToDataUri answers: the handler's download, or an edit adapter's.
DownloadResponds(ok) ==
  /\ pc = "download"
  /\ UNCHANGED <<env, route, handler, adapter, attempt, now, createLog, pollVars,
                 payload, waits, stabilityVars>>
  /\ IF ~ok
     THEN Catch("download") /\ UNCHANGED calls
     ELSE IF handler = "character"
     THEN /\ calls' = Issue("rembg")
          /\ pc' = "rembg"
          /\ UNCHANGED <<failure, response>>
     ELSE Reply("image") /\ UNCHANGED calls
  /\ Pending(Settle(inflight))
  /\ UNCHANGED <<cleanup, job, urls, completion>>
  /\ UNCHANGED <<matVars, saveVars, walletVars>>

\* Mutant of removeBackgroundAPI: a rejected fetch is not caught.
removeBackgroundAPIRethrows(r) ==
  IF r = "image" THEN "cleaned" ELSE IF r = "throws" THEN "throw" ELSE "null"

\* removeBackgroundAPI: a non-OK answer, a body without `image` and a thrown
\* error all become null.
removeBackgroundAPI(r) == IF r = "image" THEN "cleaned" ELSE "null"

\* handleCharacterGeneration: the background removal call answers; the call
\* is inside the handler's try block.
RemoveBackgroundResponds(r) ==
  /\ pc = "rembg"
  /\ cleanup' = r
  /\ UNCHANGED <<job, urls, completion>>
  /\ IF removeBackgroundAPI(r) = "throw"
     THEN Catch("cleanup")
     ELSE Reply(CleanedOrOriginal(removeBackgroundAPI(r)))
  /\ UNCHANGED <<env, route, handler, adapter, attempt, now, createLog, pollVars,
                 payload, calls, waits, stabilityVars>>
  /\ Pending(Settle(inflight))
  /\ UNCHANGED <<matVars, saveVars, walletVars>>

\* ------------------------------------------- part_001: the edit backends

\* grokImageEdit(prompt, image, 'b64_json'): one synchronous call.
grokImageEdit(status, hasB64) ==
  /\ pc = "submit" /\ adapter = "grok"
  /\ createLog' = Append(createLog, status)
  /\ UNCHANGED <<env, route, handler, adapter, attempt, now, pollVars, calls,
                 waits, stabilityVars>>
  /\ IF status = "throws"
     THEN Catch("transport") /\ UNCHANGED payload
     ELSE IF status # "ok"
     THEN Catch(HttpFailure(status)) /\ UNCHANGED payload
     ELSE IF ~hasB64
     THEN Catch("noData") /\ UNCHANGED payload
     ELSE Reply("image") /\ payload' = "inline"
  /\ Pending(Settle(inflight))
  /\ UNCHANGED <<cleanup, job, urls, completion>>
  /\ UNCHANGED <<matVars, saveVars, walletVars>>

\* Step 1 of wan25ImageEdit, falWan25ImageEdit and runpodComfyUIImageEdit:
\* the submit call of adapter `a` answers; hasId: the body names the job;
\* hasStatusUrl, hasResponseUrl: the body has status_url, response_url (read
\* by falWan25ImageEdit only; the other two build the status URL from the id).
SubmitResponds(a, status, hasId, hasStatusUrl, hasResponseUrl) ==
  /\ pc = "submit" /\ adapter = a
  /\ createLog' = Append(createLog, status)
  /\ IF status = "ok" /\ hasId
     THEN /\ job' = Job("queued", hasStatusUrl, hasResponseUrl)
          /\ urls' = IF a = "fal"
                    THEN [status |-> ReturnedOrBuilt(hasStatusUrl),
                          result |-> ReturnedOrBuilt(hasResponseUrl)]
                    ELSE [status |-> "built", result |-> "none"]
     ELSE UNCHANGED <<job, urls>>
  /\ UNCHANGED <<env, route, handler, adapter, attempt, now, lastPoll, sawOther,
                 payload, calls, waits, stabilityVars>>
  /\ IF status = "throws"
     THEN Catch("transport") /\ UNCHANGED startTime
     ELSE IF status # "ok"
     THEN Catch(HttpFailure(status)) /\ UNCHANGED startTime
     ELSE IF ~hasId
     THEN Catch("noId") /\ UNCHANGED startTime
     ELSE /\ startTime' = now
          /\ PollLoop(a, now, now)
  /\ Pending(Settle(inflight))
  /\ UNCHANGED <<cleanup, completion>>
  /\ UNCHANGED <<matVars, saveVars, walletVars>>

WanSubmitResponds(status, hasId) ==
  SubmitResponds("wan", status, hasId, FALSE, FALSE)

FalSubmitResponds(status, hasId, hasStatusUrl, hasResponseUrl) ==
  SubmitResponds("fal", status, hasId, hasStatusUrl, hasResponseUrl)

RunpodSubmitResponds(status, hasId) ==
  SubmitResponds("runpod", status, hasId, FALSE, FALSE)

\* wan25ImageEdit, step 2: a task poll answers, after d ms.
\* hasUrl: output.results[0].url is there.
WanPollResponds(r, hasUrl, d) ==
  /\ pc = "poll" /\ adapter = "wan"
  /\ WanPollStatus(r) # "continue" => d = 0
  /\ now' = now + d
  /\ lastPoll' = r
  /\ sawOther' = EarlierOther
  /\ UNCHANGED <<env, route, handler, adapter, attempt, startTime, createLog,
                 waits, stabilityVars>>
  /\ CASE WanPollStatus(r) = "throw" ->
            Catch("transport") /\ UNCHANGED <<calls, payload>>
       [] WanPollStatus(r) = "continue" ->
            PollLoop("wan", now + d, startTime) /\ UNCHANGED <<calls, payload>>
       [] WanPollStatus(r) = "resolve" ->
            IF ~hasUrl
            THEN Catch("noData") /\ UNCHANGED <<calls, payload>>
            ELSE /\ calls' = Issue("download")
                 /\ payload' = "reference"
                 /\ pc' = "download"
                 /\ UNCHANGED <<failure, response>>
       [] WanPollStatus(r) = "fail" ->
            Catch(BackendFailure(r)) /\ UNCHANGED <<calls, payload>>
  /\ Pending(Settle(inflight))
  /\ UNCHANGED <<cleanup, job, urls, completion>>
  /\ UNCHANGED <<matVars, saveVars, walletVars>>

\* falWan25ImageEdit, step 2: a status poll answers, after d ms.
FalPollResponds(r, d) ==
  /\ pc = "poll" /\ adapter = "fal"
  /\ FalPollStatus(r) # "continue" => d = 0
  /\ now' = now + d
  /\ lastPoll' = r
  /\ sawOther' = EarlierOther
  /\ UNCHANGED <<env, route, handler, adapter, attempt, startTime, createLog,
                 payload, waits, stabilityVars>>
  /\ CASE FalPollStatus(r) = "throw" -> Catch("transport") /\ UNCHANGED calls
       [] FalPollStatus(r) = "continue" ->
            PollLoop("fal", now + d, startTime) /\ UNCHANGED calls
       [] FalPollStatus(r) = "resolve" ->
            /\ calls' = Issue("result")
            /\ pc' = "result"
            /\ UNCHANGED <<failure, response>>
       [] FalPollStatus(r) = "fail" -> Catch(BackendFailure(r)) /\ UNCHANGED calls
  /\ Pending(Settle(inflight))
  /\ UNCHANGED <<cleanup, job, urls, completion>>
  /\ UNCHANGED <<matVars, saveVars, walletVars>>

\* falWan25ImageEdit: the result fetch answers; hasUrl: images[0].url is there.
FalResultResponds(status, hasUrl) ==
  /\ pc = "result"
  /\ UNCHANGED <<env, route, handler, adapter, attempt, now, createLog, pollVars,
                 waits, stabilityVars>>
  /\ IF status = "throws"
     THEN Catch("transport") /\ UNCHANGED <<calls, payload>>
     ELSE IF status # "ok"
     THEN Catch("http") /\ UNCHANGED <<calls, payload>>
     ELSE IF ~hasUrl
     THEN Catch("noData") /\ UNCHANGED <<calls, payload>>
     ELSE /\ calls' = Issue("download")
          /\ payload' = "reference"
          /\ pc' = "download"
          /\ UNCHANGED <<failure, response>>
  /\ Pending(Settle(inflight))
  /\ UNCHANGED <<cleanup, job, urls, completion>>
  /\ UNCHANGED <<matVars, saveVars, walletVars>>

\* Mutant of RunpodOutput: output.message is looked at before output.images.
RunpodOutputMessageFirst(images, message) ==
  IF message = "http" THEN "reference"
  ELSE IF message = "b64" THEN "inline"
  ELSE IF images = "base64" THEN "inline"
  ELSE IF images = "s3_url" THEN "reference"
  ELSE "none"

\* runpodComfyUIImageEdit: where a COMPLETED payload's image comes from.
\* images: type of output.images[0]; message: shape of output.message.
RunpodOutput(images, message) ==
  IF images = "base64" THEN "inline"
  ELSE IF images = "s3_url" THEN "reference"
  ELSE IF message = "http" THEN "reference"
  ELSE IF message = "b64" THEN "inline"
  ELSE "none"

\* runpodComfyUIImageEdit, step 2: a status poll answers, after d ms.
RunpodPollResponds(r, images, message, d) ==
  /\ pc = "poll" /\ adapter = "runpod"
  /\ RunpodPollStatus(r) # "continue" => d = 0
  /\ completion' = IF RunpodPollStatus(r) = "resolve"
                  THEN [images |-> images, message |-> message]
                  ELSE completion
  /\ now' = now + d
  /\ lastPoll' = r
  /\ sawOther' = EarlierOther
  /\ UNCHANGED <<env, route, handler, adapter, attempt, startTime, createLog,
                 waits, stabilityVars>>
  /\ CASE RunpodPollStatus(r) = "throw" ->
            Catch("transport") /\ UNCHANGED <<calls, payload>>
       [] RunpodPollStatus(r) = "continue" ->
            PollLoop("runpod", now + d, startTime) /\ UNCHANGED <<calls, payload>>
       [] RunpodPollStatus(r) = "resolve" ->
            CASE RunpodOutput(images, message) = "inline" ->
                   /\ Reply("image")
                   /\ payload' = "inline"
                   /\ UNCHANGED calls
              [] RunpodOutput(images, message) = "reference" ->
                   /\ calls' = Issue("download")
                   /\ payload' = "reference"
                   /\ pc' = "download"
                   /\ UNCHANGED <<failure, response>>
              [] OTHER -> Catch("noData") /\ UNCHANGED <<calls, payload>>
       [] RunpodPollStatus(r) = "fail" ->
            Catch(BackendFailure(r)) /\ UNCHANGED <<calls, payload>>
  /\ Pending(Settle(inflight))
  /\ UNCHANGED <<cleanup, job, urls>>
  /\ UNCHANGED <<matVars, saveVars, walletVars>>

\* ------------------------------------------ part_002: the Stability route

\* STABILITY_ENDPOINTS, and generateImageToImage's own list.
STABILITY_ENDPOINTS == <<"ultra", "sd3", "core">>

ImageToImageEndpoints == <<"sd3", "ultra">>

\* The route's POST for generate_character, and handleCharacterGeneration
\* up to the first fetch.  refKind: shape of referenceImageUrl.
StabilityPOST(action, bodyOk, refKind) ==
  /\ pc = "idle"
  /\ route' = "stability"
  /\ UNCHANGED <<env, adapter, attempt, now, createLog, pollVars, payload, waits,
                 answers, errlog>>
  /\ IF ~bodyOk
     THEN /\ handler' = "none" /\ calls' = NoCalls /\ failure' = "none"
          /\ endpoints' = <<>> /\ tried' = <<>>
          /\ response' = Json(500, "absent", "internal", FALSE, <<>>)
          /\ pc' = "done"
     ELSE IF action = "unknown"
     THEN /\ handler' = "none" /\ calls' = NoCalls /\ failure' = "none"
          /\ endpoints' = <<>> /\ tried' = <<>>
          /\ response' = Json(400, "absent", "unknownAction", FALSE, <<>>)
          /\ pc' = "done"
     ELSE IF ~env["STABILITY_API_KEY"]
     THEN /\ handler' = "none" /\ calls' = NoCalls /\ failure' = "none"
          /\ endpoints' = <<>> /\ tried' = <<>>
          /\ response' = Json(500, "absent", "notConfigured", FALSE, <<>>)
          /\ pc' = "done"
     ELSE IF refKind = "malformed"
     THEN \* 'data:' with no comma: Buffer.from(undefined) throws in the try,
          \* and this route's catch answers a fixed string
          /\ handler' = "character" /\ calls' = NoCalls /\ failure' = "transport"
          /\ endpoints' = <<>> /\ tried' = <<>>
          /\ response' = Json(500, "absent", "handlerFailed", FALSE, <<>>)
          /\ pc' = "done"
     ELSE /\ handler' = "character"
          /\ failure' = "none"
          /\ endpoints' = IF refKind = "data" THEN ImageToImageEndpoints
                          ELSE STABILITY_ENDPOINTS
          /\ tried' = <<endpoints'[1]>>
          /\ calls' = [NoCalls EXCEPT !.create = 1]
          /\ response' = NoResponse
          /\ pc' = "endpoint"
  /\ Pending(inflight)
  /\ UNCHANGED <<cleanup, job, urls, completion>>
  /\ UNCHANGED <<matVars, saveVars, walletVars>>

\* Mutant of Logged: nothing is logged.
LoggedNothing(ep, r) == <<>>

\* What an endpoint's answer leaves in the console: a non-OK status and a
\* thrown error are logged, a 2xx body without an image is not.
Logged(ep, r) ==
  IF r \in {"notOk", "throws"} THEN <<[endpoint |-> ep, what |-> r]>> ELSE <<>>

\* Mutant of Exhausted: the loop gives up after its first endpoint.
ExhaustedAfterFirst(t, eps) == Len(t) >= 1

\* The `for (const endpoint of ...)` loop has no endpoint left after `t`.
Exhausted(t, eps) == Len(t) >= Len(eps)

\* handleCharacterGeneration's answer when generateImage returned null.
AllFailed == Json(500, "absent", "allFailed", FALSE, <<>>)

\* generateImage / generateImageToImage: the current endpoint answers.
generateImage(r) ==
  /\ pc = "endpoint"
  /\ answers' = Append(answers, r)
  /\ UNCHANGED <<env, route, handler, adapter, attempt, now, createLog, pollVars,
                 payload, waits, failure, endpoints>>
  /\ IF r = "image"
     THEN /\ response' = Json(200, "image", "absent", FALSE, <<>>)
          /\ pc' = "done"
          /\ UNCHANGED <<calls, tried, errlog>>
     ELSE /\ errlog' = errlog \o Logged(tried[Len(tried)], r)
          /\ IF ~Exhausted(tried, endpoints)
             THEN /\ tried' = Append(tried, endpoints[Len(tried) + 1])
                  /\ calls' = Issue("create")
                  /\ UNCHANGED <<pc, response>>
             ELSE /\ response' = AllFailed
                  /\ pc' = "done"
                  /\ UNCHANGED <<calls, tried>>
  /\ Pending(Settle(inflight))
  /\ UNCHANGED <<cleanup, job, urls, completion>>
  /\ UNCHANGED <<matVars, saveVars, walletVars>>

\* ------------------------------------------------------- specification

Next ==
  \/ \E action \in Actions, bodyOk \in BOOLEAN, hasBase \in BOOLEAN :
       POST(action, bodyOk, hasBase)
  \/ \E status \in FetchOutcomes,
        pstatus \in {"starting", "succeeded", "failed", "canceled"},
        output \in {"urls", "empty"} :
       ReplicateCreateResponds(status, pstatus, output)
  \/ ReplicateBackoffElapses
  \/ PollSleepElapses
  \/ \E r \in PollOutcomes, output \in {"urls", "empty"}, d \in Latencies :
       ReplicatePollResponds(r, output, d)
  \/ \E ok \in BOOLEAN : DownloadResponds(ok)
  \/ \E r \in {"notOk", "noImage", "image", "throws"} : RemoveBackgroundResponds(r)
  \/ \E status \in FetchOutcomes, hasB64 \in BOOLEAN : grokImageEdit(status, hasB64)
  \/ \E status \in FetchOutcomes, hasId \in BOOLEAN : WanSubmitResponds(status, hasId)
  \/ \E r \in PollOutcomes, hasUrl \in BOOLEAN, d \in Latencies :
       WanPollResponds(r, hasUrl, d)
  \/ \E status \in FetchOutcomes, hasId \in BOOLEAN,
        hasStatusUrl \in BOOLEAN, hasResponseUrl \in BOOLEAN :
       FalSubmitResponds(status, hasId, hasStatusUrl, hasResponseUrl)
  \/ \E r \in PollOutcomes, d \in Latencies : FalPollResponds(r, d)
  \/ \E status \in FetchOutcomes, hasUrl \in BOOLEAN : FalResultResponds(status, hasUrl)
  \/ \E status \in FetchOutcomes, hasId \in BOOLEAN : RunpodSubmitResponds(status, hasId)
  \/ \E r \in PollOutcomes, images \in {"none", "base64", "s3_url", "other"},
        message \in {"none", "http", "b64"}, d \in Latencies :
       RunpodPollResponds(r, images, message, d)
  \/ \E action \in {"generate_character", "unknown"}, bodyOk \in BOOLEAN,
        refKind \in {"none", "url", "data", "malformed"} :
       StabilityPOST(action, bodyOk, refKind)
  \/ \E r \in {"notOk", "noImage", "image", "throws"} : generateImage(r)
  \/ RequestEnds

Spec == Init /\ [][Next]_vars

\* Every await of the code completes: a pending fetch answers (or rejects)
\* and a pending timer fires.
FairSpec == Spec /\ WF_vars(Next)

\* ------------------------------------- part_005: removeBackground (matting)

\* An image is [w, h, px] with px the RGBA pixels by index y * w + x.
Rgba(r, g, b, a) == [r |-> r, g |-> g, b |-> b, a |-> a]

White == Rgba(255, 255, 255, 255)
Dark == Rgba(40, 40, 40, 255)
Grey == Rgba(187, 187, 187, 255)
Red == Rgba(255, 0, 0, 255)

Palette == {White, Dark, Grey, Red}

\* A light grey pixel that is already mostly transparent.
Veil == Rgba(187, 187, 187, 50)

VeilPalette == {White, Dark, Veil}

\* Largest width and height of the images enumerated pixel by pixel.
MaxW == 3
MaxH == 2

\* Side of the square white images, and the pixels of them that may be red
\* instead: one inner pixel, its four neighbours and the inner pixel
\* diagonal to it.
GridSide == 4
GridSpots ==
  {1, GridSide, GridSide + 1, GridSide + 2, 2 * GridSide + 1, 2 * GridSide + 2}

\* Width of the one-row white images with a few red pixels, the places a
\* red pixel may take, and how many there may be.
RowLen == 60
RowSpots == {1, 2, 3, 4, 30}
RowMarks == 3

\* Width of the one-row images of alternating red and white pixels, and the
\* longest all-red lead they start with.
StripeLen == 81
StripeLead == 8

SmallImages ==
  UNION {{[w |-> ww, h |-> hh, px |-> f] : f \in [0..(ww * hh - 1) -> Palette]} :
           ww \in 1..MaxW, hh \in 1..MaxH}

GridImages ==
  {[w |-> GridSide, h |-> GridSide,
    px |-> [p \in 0..(GridSide * GridSide - 1) |->
              IF p \in S THEN Red ELSE White]] : S \in SUBSET GridSpots}

RowImages ==
  {[w |-> RowLen, h |-> 1,
    px |-> [p \in 0..(RowLen - 1) |-> IF p \in S THEN Red ELSE White]] :
     S \in {T \in SUBSET RowSpots : Cardinality(T) <= RowMarks}}

StripeImages ==
  {[w |-> StripeLen, h |-> 1,
    px |-> [p \in 0..(StripeLen - 1) |->
              IF p < lead \/ (p % 2) = 0 THEN Red ELSE White]] :
     lead \in 0..StripeLead}

\* The largest enumerated size again, with pixels that may be translucent.
VeilImages ==
  {[w |-> MaxW, h |-> MaxH, px |-> f] :
     f \in [0..(MaxW * MaxH - 1) -> VeilPalette]}

Images ==
  SmallImages \cup GridImages \cup RowImages \cup StripeImages \cup VeilImages

Pixels(img) == 0..(img.w * img.h - 1)

Evens(n) == {x \in 0..(n - 1) : (x % 2) = 0}

\* topPx, botPx, leftPx, rightPx: every second pixel of each side.
topPx(img) == Evens(img.w)
botPx(img) == {(img.h - 1) * img.w + x : x \in Evens(img.w)}
leftPx(img) == {y * img.w : y \in Evens(img.h)}
rightPx(img) == {y * img.w + img.w - 1 : y \in Evens(img.h)}

\* xs.sort((a,b) => a-b)[Math.floor(xs.length / 2)] for channel ch of the
\* pixels at `positions`.
Median(img, positions, ch) ==
  LET m == Cardinality(positions) \div 2
      below(v) == Cardinality({q \in positions : img.px[q][ch] < v})
      upTo(v) == Cardinality({q \in positions : img.px[q][ch] <= v})
  IN  CHOOSE v \in {img.px[q][ch] : q \in positions} : below(v) <= m /\ m < upTo(v)

sampleEdge(img, positions) ==
  [r |-> Median(img, positions, "r"),
   g |-> Median(img, positions, "g"),
   b |-> Median(img, positions, "b")]

edgeSamples(img) ==
  <<sampleEdge(img, topPx(img)), sampleEdge(img, botPx(img)),
    sampleEdge(img, leftPx(img)), sampleEdge(img, rightPx(img))>>

Max3(a, b, c) == IF a >= b /\ a >= c THEN a ELSE IF b >= c THEN b ELSE c
Min3(a, b, c) == IF a <= b /\ a <= c THEN a ELSE IF b <= c THEN b ELSE c

bgIsAchromatic(es) ==
  \A i \in 1..Len(es) :
     Max3(es[i].r, es[i].g, es[i].b) - Min3(es[i].r, es[i].g, es[i].b) < 35

bgIsGreen(es) ==
  \E i \in 1..Len(es) : es[i].g > 150 /\ es[i].r < 120 /\ es[i].b < 120

\* avgBgBrightness < 50, for the four samples: the channel sums add up to
\* less than 4 * 3 * 50.
bgIsDark(es) ==
  es[1].r + es[1].g + es[1].b + es[2].r + es[2].g + es[2].b
    + es[3].r + es[3].g + es[3].b + es[4].r + es[4].g + es[4].b < 600

threshold(es) ==
  IF bgIsGreen(es) THEN 80
  ELSE IF bgIsAchromatic(es) THEN (IF bgIsDark(es) THEN 70 ELSE 110)
  ELSE 70

feather == 15

\* dr*dr + dg*dg + db*db, the square of the distance minEdgeDist takes the
\* root of.
DistSq(c, bg) ==
  (c.r - bg.r) * (c.r - bg.r) + (c.g - bg.g) * (c.g - bg.g)
    + (c.b - bg.b) * (c.b - bg.b)

\* Mutant of minEdgeDist: only the red channel is compared.
minEdgeDistRedOnly(c, es) ==
  LET ds == {(c.r - es[i].r) * (c.r - es[i].r) : i \in 1..Len(es)}
  IN  CHOOSE dmin \in ds : \A e \in ds : dmin <= e

\* minEdgeDist, squared: the distance of colour c to the nearest edge sample.
minEdgeDist(c, es) ==
  LET ds == {DistSq(c, es[i]) : i \in 1..Len(es)}
  IN  CHOOSE dmin \in ds : \A e \in ds : dmin <= e

isLowSaturation(c) ==
  LET maxCh == Max3(c.r, c.g, c.b)
      absSat == maxCh - Min3(c.r, c.g, c.b)
  IN  IF maxCh <= 10 THEN TRUE
      ELSE absSat < 30 /\ 100 * absSat < 18 * maxCh

\* Mutant of Accept: the low-saturation test is applied to every background.
AcceptSaturationAlways(c, es) ==
  /\ minEdgeDist(c, es) < (threshold(es) + feather) * (threshold(es) + feather)
  /\ isLowSaturation(c)

\* `accept` of the first flood fill, for a pixel of colour c.
Accept(c, es) ==
  /\ minEdgeDist(c, es) < (threshold(es) + feather) * (threshold(es) + feather)
  /\ bgIsAchromatic(es) => isLowSaturation(c)

Border(img) ==
  {p \in Pixels(img) :
     \/ (p \div img.w) = 0 \/ (p \div img.w) = img.h - 1
     \/ (p % img.w) = 0 \/ (p % img.w) = img.w - 1}

\* The 4-neighbours the fills push: px-1, px+1, px-w, px+w inside the image.
Neighbours(img, p) ==
  {q \in {p - 1, p + 1, p - img.w, p + img.w} \cap Pixels(img) :
     \/ ((q \div img.w) = (p \div img.w) /\ (q = p - 1 \/ q = p + 1))
     \/ ((q % img.w) = (p % img.w) /\ (q = p - img.w \/ q = p + img.w))}

RECURSIVE Flood(_, _, _)
\* A stack fill: the pixels of `open` reached from `seen` over 4-neighbours.
Flood(img, open, seen) ==
  LET more == {q \in open \ seen : \E p \in seen : q \in Neighbours(img, p)}
  IN  IF more = {} THEN seen ELSE Flood(img, open, seen \cup more)

\* Mutant of rawBg: every accepted pixel, reached from the border or not.
rawBgAnywhere(img, es) == {p \in Pixels(img) : Accept(img.px[p], es)}

\* rawBg: the accepted pixels the first fill reaches from the border.
rawBg(img, es) ==
  LET open == {p \in Pixels(img) : Accept(img.px[p], es)}
  IN  Flood(img, open, Border(img) \cap open)

\* borderConnected: the second fill, over rawBg from the border.
borderConnected(img, raw) == Flood(img, raw, Border(img) \cap raw)

\* The 7 x 7 neighbourhood of p, clipped to the image.
Window(img, p) ==
  {q \in Pixels(img) :
     /\ (q \div img.w) - (p \div img.w) \in -3..3
     /\ (q % img.w) - (p % img.w) \in -3..3}

\* Mutant of Majority: the vote always passes.
MajorityAlways(bgCount, total) == TRUE

\* bgCount >= total * 0.65
Majority(bgCount, total) == 100 * bgCount >= 65 * total

isBackground(img, bc) ==
  {p \in bc : Majority(Cardinality(Window(img, p) \cap bc),
                       Cardinality(Window(img, p)))}

\* Math.max(0, Math.min(255, Math.round(((dd - threshold) / feather) * 255)))
\* for threshold <= dd < threshold + feather, from dd * dd = dsq: the largest
\* k with dd >= t + (k - 1/2) * feather / 255, in units of feather / 510
\* (510 is a multiple of feather).
FeatherAlpha(dsq, t) ==
  LET unit == (2 * 255) \div feather
      reached == {k \in 0..255 :
                    unit * unit * dsq >=
                      (unit * t + 2 * k - 1) * (unit * t + 2 * k - 1)}
  IN  CHOOSE k \in reached : \A j \in reached : j <= k

\* Mutant of CarvedAlpha: the feather alpha is written without Math.min.
CarvedAlphaOverwrite(a, dsq, t) ==
  IF dsq < t * t THEN 0 ELSE FeatherAlpha(dsq, t)

\* The alpha the carve loop writes to a background pixel of alpha a.
CarvedAlpha(a, dsq, t) ==
  IF dsq < t * t THEN 0
  ELSE IF dsq >= (t + feather) * (t + feather) THEN a
  ELSE IF FeatherAlpha(dsq, t) < a THEN FeatherAlpha(dsq, t) ELSE a

Carve(img, es, bg) ==
  [img EXCEPT !.px =
     [p \in Pixels(img) |->
        IF p \in bg
        THEN [img.px[p] EXCEPT
                !.a = CarvedAlpha(@, minEdgeDist(img.px[p], es), threshold(es))]
        ELSE img.px[p]]]

\* Mutant of OutsideGuard: only the upper limit is tested.
OutsideGuardUpperOnly(removed, n) == 100 * removed > 92 * n

\* Mutant of OutsideGuard: the upper limit is 95%.
OutsideGuardLoose(removed, n) == 100 * removed < 5 * n \/ 100 * removed > 95 * n

\* pct < 0.05 || pct > 0.92, for pct = removed / n.
OutsideGuard(removed, n) == 100 * removed < 5 * n \/ 100 * removed > 92 * n

\* ctx.putImageData + canvas.toDataURL('image/png'): a canvas that stores
\* premultiplied colour keeps no colour for a pixel of alpha 0.
toDataURL(img, lossy) ==
  IF lossy
  THEN [img EXCEPT !.px = [p \in Pixels(img) |->
                             IF img.px[p].a = 0 THEN Rgba(0, 0, 0, 0)
                             ELSE img.px[p]]]
  ELSE img

\* removeBackground(dataUrl): the promise is created and img.src is set.
removeBackground ==
  /\ stage = "idle"
  /\ stage' = "loading"
  /\ run' = 1
  /\ input' = asset
  /\ UNCHANGED <<asset, premultiplied, result, resolvedBy, removedCount>>
  /\ UNCHANGED <<routeVars, saveVars, walletVars>>

\* img.onerror = () => resolve(dataUrl)
ImgOnError ==
  /\ stage = "loading"
  /\ input = Undecodable
  /\ stage' = "resolved"
  /\ result' = input
  /\ resolvedBy' = Append(resolvedBy, "onerror")
  /\ UNCHANGED <<asset, premultiplied, run, input, removedCount>>
  /\ UNCHANGED <<routeVars, saveVars, walletVars>>

\* img.onload; hasCtx: canvas.getContext('2d') is not null. For a canvas
\* of no area ctx.getImageData(0, 0, w, h) throws IndexSizeError; nothing in
\* the handler catches it, so the promise is left pending.
ImgOnLoad(hasCtx) ==
  /\ stage = "loading"
  /\ input # Undecodable
  /\ IF ~hasCtx
     THEN /\ stage' = "resolved"
          /\ result' = input
          /\ resolvedBy' = Append(resolvedBy, "noContext")
          /\ UNCHANGED removedCount
     ELSE IF input.w * input.h = 0
     THEN /\ stage' = "threw"
          /\ UNCHANGED <<result, resolvedBy, removedCount>>
     ELSE LET es == edgeSamples(input)
              raw == rawBg(input, es)
              bc == borderConnected(input, raw)
              bg == isBackground(input, bc)
              removed == Cardinality(bg)
          IN  /\ stage' = "resolved"
              /\ removedCount' = Append(removedCount, removed)
              /\ IF OutsideGuard(removed, input.w * input.h)
                 THEN /\ result' = input
                      /\ resolvedBy' = Append(resolvedBy, "guard")
                 ELSE /\ result' = toDataURL(Carve(input, es, bg), premultiplied)
                      /\ resolvedBy' = Append(resolvedBy, "canvas")
  /\ UNCHANGED <<asset, premultiplied, run, input>>
  /\ UNCHANGED <<routeVars, saveVars, walletVars>>

\* removeBackground is called again, with the value the first call returned.
removeBackgroundAgain ==
  /\ stage = "resolved"
  /\ run = 1
  /\ stage' = "loading"
  /\ run' = 2
  /\ input' = result
  /\ UNCHANGED <<asset, premultiplied, result, resolvedBy, removedCount>>
  /\ UNCHANGED <<routeVars, saveVars, walletVars>>

MatInit ==
  /\ env = [k \in EnvKeys |-> FALSE]
  /\ RoutesAtRest
  /\ asset \in Images \cup {Undecodable, ZeroWidth}
  /\ premultiplied \in BOOLEAN
  /\ MattingAtRest
  /\ SaveAtRest
  /\ WalletAtRest

MatNext ==
  \/ removeBackground
  \/ ImgOnError
  \/ \E hasCtx \in BOOLEAN : ImgOnLoad(hasCtx)
  \/ removeBackgroundAgain

MatSpec == MatInit /\ [][MatNext]_vars

\* The browser fires load or error for an image whose src was set.
MatFairSpec == MatSpec /\ WF_vars(MatNext)

\* ------------------------------------------- hooks/useAutoSave.ts

\* useAutoSave({ onSave, debounceMs = 1500 })
debounceMs == 1500
\* setTimeout(() => setStatus('idle'), 2000) after a save that resolved
SavedResetMs == 2000
\* setTimeout(() => setStatus('idle'), 3000) after a save that rejected
ErrorResetMs == 3000

\* The step of the clock, and the most onSave calls in flight at once.
TickMs == 500
MaxSaving == 2

\* The ms left of a timer after the clock moved on by TickMs.
Later(ms) == IF ms = NoTimer THEN NoTimer ELSE IF ms > TickMs THEN ms - TickMs ELSE 0

\* triggerSave(): both refs' timers are cleared and the debounce timer is
\* armed.  (A timer that fired or was replaced in its ref is not cleared.)
triggerSave ==
  /\ saving < MaxSaving
  /\ timerRef' = debounceMs
  /\ savedTimerRef' = NoTimer
  /\ UNCHANGED <<autoSaveStatus, orphans, saving>>
  /\ UNCHANGED <<routeVars, matVars, walletVars>>

\* The debounce timer fires: setStatus('saving') and onSaveRef.current() is
\* called; the callback is suspended at its await.
DebounceElapses ==
  /\ timerRef = 0
  /\ timerRef' = NoTimer
  /\ autoSaveStatus' = "saving"
  /\ saving' = saving + 1
  /\ UNCHANGED <<savedTimerRef, orphans>>
  /\ UNCHANGED <<routeVars, matVars, walletVars>>

\* An onSave call settles: the callback resumes after its await (ok) or in
\* its catch (~ok), sets the status and stores a new reset timer in
\* savedTimerRef; the timer the ref held stays armed.
OnSaveSettles(ok) ==
  /\ saving > 0
  /\ saving' = saving - 1
  /\ autoSaveStatus' = IF ok THEN "saved" ELSE "error"
  /\ savedTimerRef' = IF ok THEN SavedResetMs ELSE ErrorResetMs
  /\ orphans' = IF savedTimerRef = NoTimer THEN orphans
                ELSE orphans \cup {savedTimerRef}
  /\ UNCHANGED timerRef
  /\ UNCHANGED <<routeVars, matVars, walletVars>>

\* The reset timer savedTimerRef holds fires: setStatus('idle').
ResetElapses ==
  /\ savedTimerRef = 0
  /\ savedTimerRef' = NoTimer
  /\ autoSaveStatus' = "idle"
  /\ UNCHANGED <<timerRef, orphans, saving>>
  /\ UNCHANGED <<routeVars, matVars, walletVars>>

\* A reset timer no ref holds any more fires: setStatus('idle').
OrphanResetElapses ==
  /\ 0 \in orphans
  /\ orphans' = orphans \ {0}
  /\ autoSaveStatus' = "idle"
  /\ UNCHANGED <<timerRef, savedTimerRef, saving>>
  /\ UNCHANGED <<routeVars, matVars, walletVars>>

\* Time passes, by TickMs: no armed timer is due, and some timer is armed.
Tick ==
  /\ timerRef # 0 /\ savedTimerRef # 0 /\ 0 \notin orphans
  /\ timerRef # NoTimer \/ savedTimerRef # NoTimer \/ orphans # {}
  /\ timerRef' = Later(timerRef)
  /\ savedTimerRef' = Later(savedTimerRef)
  /\ orphans' = {Later(ms) : ms \in orphans}
  /\ UNCHANGED <<autoSaveStatus, saving>>
  /\ UNCHANGED <<routeVars, matVars, walletVars>>

SaveInit ==
  /\ env = [k \in EnvKeys |-> FALSE]
  /\ RoutesAtRest
  /\ asset = Undecodable
  /\ premultiplied = FALSE
  /\ MattingAtRest
  /\ SaveAtRest
  /\ WalletAtRest

SaveNext ==
  \/ triggerSave
  \/ DebounceElapses
  \/ \E ok \in BOOLEAN : OnSaveSettles(ok)
  \/ ResetElapses
  \/ OrphanResetElapses
  \/ Tick

SaveSpec == SaveInit /\ [][SaveNext]_vars

\* --------------------------------------- lib/firestore-utils.ts: wallet

\* The largest amount of one call.
MaxAmount == 2

Amounts == 1..MaxAmount

\* deductCoins(uid, amount) is called: getUserWallet's getDoc is pending.
deductCoins(p, amount) ==
  /\ wpc[p] = "idle"
  /\ wpc' = [wpc EXCEPT ![p] = "reading"]
  /\ wop' = [wop EXCEPT ![p] = "deduct"]
  /\ wamt' = [wamt EXCEPT ![p] = amount]
  /\ UNCHANGED <<coins, wseen, credited, debited>>
  /\ UNCHANGED <<routeVars, matVars, saveVars>>

\* addCoins(uid, amount) is called: getUserWallet's getDoc is pending.
addCoins(p, amount) ==
  /\ wpc[p] = "idle"
  /\ wpc' = [wpc EXCEPT ![p] = "reading"]
  /\ wop' = [wop EXCEPT ![p] = "add"]
  /\ wamt' = [wamt EXCEPT ![p] = amount]
  /\ UNCHANGED <<coins, wseen, credited, debited>>
  /\ UNCHANGED <<routeVars, matVars, saveVars>>

\* getUserWallet resolves with the document as it is now; deductCoins returns
\* false when wallet.coins < amount, otherwise the call issues its write
\* (updateDoc / setDoc) of a balance computed from what it read.
getUserWallet(p) ==
  /\ wpc[p] = "reading"
  /\ wseen' = [wseen EXCEPT ![p] = coins]
  /\ wpc' = [wpc EXCEPT ![p] =
               IF wop[p] = "deduct" /\ coins < wamt[p] THEN "false" ELSE "writing"]
  /\ UNCHANGED <<coins, wop, wamt, credited, debited>>
  /\ UNCHANGED <<routeVars, matVars, saveVars>>

\* The write is applied to the document and the call returns (deductCoins:
\* true).
WriteApplied(p) ==
  /\ wpc[p] = "writing"
  /\ IF wop[p] = "deduct"
     THEN /\ coins' = wseen[p] - wamt[p]
          /\ wpc' = [wpc EXCEPT ![p] = "true"]
          /\ debited' = debited + wamt[p]
          /\ UNCHANGED credited
     ELSE /\ coins' = wseen[p] + wamt[p]
          /\ wpc' = [wpc EXCEPT ![p] = "done"]
          /\ credited' = credited + wamt[p]
          /\ UNCHANGED debited
  /\ UNCHANGED <<wop, wamt, wseen>>
  /\ UNCHANGED <<routeVars, matVars, saveVars>>

WalletInit ==
  /\ env = [k \in EnvKeys |-> FALSE]
  /\ RoutesAtRest
  /\ asset = Undecodable
  /\ premultiplied = FALSE
  /\ MattingAtRest
  /\ SaveAtRest
  /\ WalletAtRest

WalletNext ==
  \/ \E p \in Callers, amount \in Amounts : deductCoins(p, amount)
  \/ \E p \in Callers, amount \in Amounts : addCoins(p, amount)
  \/ \E p \in Callers : getUserWallet(p)
  \/ \E p \in Callers : WriteApplied(p)

WalletSpec == WalletInit /\ [][WalletNext]_vars

\* ------------------------------------------------------------- claims

Last(seq) == seq[Len(seq)]

HasImage == response.imageUrl \notin {"absent", "null"}

HasError == response.error # "absent"

\* handleExpressionGeneration's answer to a request without a base image:
\* {imageUrl: null, message}.
NoBaseImageAnswer == response.imageUrl = "null" /\ response.message /\ ~HasError

\* C1, as stated: every response of the Replicate route carries exactly one
\* of a usable image (non-null imageUrl) and an error, never both and never
\* neither.
C1_ImageXorError ==
  (route = "replicate" /\ response.sent) => (HasImage # HasError)

\* C1, amended: every finished request of the Replicate route has a response
\* that carries exactly one of a usable image and a failure, where the failure
\* is an `error` or, for an expression request without a base image (answered
\* before any network call), a `message` beside a null imageUrl.
C1_ImageXorFailure ==
  /\ (route = "replicate" /\ pc = "done") => response.sent
  /\ (route = "replicate" /\ response.sent) =>
       /\ HasImage # (HasError \/ NoBaseImageAnswer)
       /\ NoBaseImageAnswer => (handler = "expression" /\ calls = NoCalls)

C1_Witness ==
  route = "replicate" /\ response.sent /\ NoBaseImageAnswer /\ handler = "expression"

\* The edit backends in handleExpressionGeneration's priority order, and
\* whether the credentials of each are set.
EditPriority == <<"runpod", "fal", "wan", "grok">>

Credentialed(a) ==
  CASE a = "runpod" -> env["RUNPOD_API_KEY"] /\ env["RUNPOD_ENDPOINT_ID"]
    [] a = "fal" -> env["FAL_KEY"]
    [] a = "wan" -> env["DASHSCOPE_API_KEY"]
    [] a = "grok" -> env["XAI_API_KEY"]
    [] OTHER -> FALSE

PositionOf(a) == CHOOSE i \in 1..Len(EditPriority) : EditPriority[i] = a

FirstCredentialed ==
  IF \E i \in 1..Len(EditPriority) : Credentialed(EditPriority[i])
  THEN EditPriority[CHOOSE i \in 1..Len(EditPriority) :
                      /\ Credentialed(EditPriority[i])
                      /\ \A j \in 1..(i - 1) : ~Credentialed(EditPriority[j])]
  ELSE "grok"

\* The walk over the Stability endpoints is in list order, one request per
\* endpoint, each endpoint after the first reached only by the failure of
\* the one before it, and it ends at the first image or at the list's end.
OrderedWalk ==
  /\ Len(tried) <= Len(endpoints)
  /\ tried = SubSeq(endpoints, 1, Len(tried))
  /\ calls.create = Len(tried)
  /\ Len(answers) = IF pc = "endpoint" THEN Len(tried) - 1 ELSE Len(tried)
  /\ \A i \in 1..(Len(answers) - 1) : answers[i] # "image"
  /\ (pc = "done" /\ answers # <<>>) =>
       IF Last(answers) = "image"
       THEN response.imageUrl = "image" /\ ~HasError
       ELSE Len(answers) = Len(endpoints) /\ HasError

NoEditCredential == \A i \in 1..Len(EditPriority) : ~Credentialed(EditPriority[i])

\* C3: a request whose orchestrator has no configured adapter fails at once
\* with not-configured and makes no network call: any request of the
\* Replicate route without its token, and an expression edit (one that
\* brings a base image) when no edit-backend credential is set.
C3_NotConfiguredNoNetwork ==
  /\ (route = "replicate" /\ ~ReplicateConfigured) =>
       /\ calls = NoCalls
       /\ response.sent => response.error = "notConfigured"
  /\ (handler = "expression" /\ NoEditCredential) =>
       /\ calls = NoCalls
       /\ (response.sent /\ ~NoBaseImageAnswer) => response.error = "notConfigured"

AllRateLimited == \A i \in 1..Len(createLog) : createLog[i] = "rateLimited"

C5_OtherFailuresNotRetried ==
  adapter = "replicate" =>
     /\ \A i \in 1..(Len(createLog) - 1) : createLog[i] = "rateLimited"
     /\ Len(waits) <= Len(createLog)
     /\ (createLog # <<>> /\ Last(createLog) = "error") =>
          /\ pc = "done"
          /\ failure = "http"
          /\ HasError
          /\ calls.create = Len(createLog)
          /\ Len(waits) = Len(createLog) - 1
          /\ calls.poll = 0
     /\ createLog = <<"error">> => (calls.create = 1 /\ waits = <<>> /\ now = 0)

C5_Witness ==
  /\ adapter = "replicate" /\ pc = "done"
  /\ createLog = <<"error">>
  /\ calls.create = 1
  /\ failure = "http"

RECURSIVE ConsoleOf(_)
\* What the answers of the first n endpoints leave in the console.
ConsoleOf(n) ==
  IF n = 0 THEN <<>>
  ELSE ConsoleOf(n - 1) \o
       (IF answers[n] \in {"notOk", "throws"}
        THEN <<[endpoint |-> endpoints[n], what |-> answers[n]]>>
        ELSE <<>>)

C8_WanResolvesOnSuccess ==
  (adapter = "wan" /\ lastPoll = "succeeded" /\ ~sawOther) =>
     /\ pc \in {"download", "done"}
     /\ calls.poll >= 1
     /\ calls.create = 1
     /\ payload = "reference" =>
          /\ calls.download = 1
          /\ pc = "done" => \/ (failure = "none" /\ response.imageUrl = "image")
                            \/ failure = "download"
     /\ payload # "reference" =>
          (calls.download = 0 /\ pc = "done" /\ failure = "noData")

C8_Witness ==
  /\ adapter = "wan" /\ pc = "done"
  /\ lastPoll = "succeeded" /\ ~sawOther
  /\ calls.poll = 3
  /\ calls.download = 1
  /\ response.imageUrl = "image"

PollingAdapters == {"replicate", "wan", "fal", "runpod"}

\* C9: a polling adapter whose backend never reports a terminal status does
\* not poll forever: it sends at most ceil(timeout / interval) polls, its
\* poll loop always comes to an end, and when the last answer was still
\* non-terminal the end is the timed-out failure.
C9_PollLoopsTimeOut ==
  /\ [](adapter \in PollingAdapters => calls.poll <= MaxPolls(adapter))
  /\ []((pc = "done" /\ lastPoll \in {"running", "notOk"}) =>
          (failure = "timedOut" /\ response.details = <<"timedOut">>))
  /\ ((pc \in {"sleep", "poll"}) ~> (pc = "done"))

C9_Witness ==
  /\ adapter = "replicate" /\ pc = "done"
  /\ failure = "timedOut"
  /\ lastPoll = "running" /\ ~sawOther
  /\ calls.poll = MaxPolls("replicate")

\* C10: for each of the four polling adapters a poll that reports the job
\* failed or canceled is terminal: the adapter fails at that poll and sends
\* no further poll.
C10_FailedOrCanceledIsTerminal ==
  (adapter \in PollingAdapters /\ lastPoll \in {"failed", "canceled"}) =>
     (pc = "done" /\ failure \in {"backendFailed", "canceled"})

\* C11: during polling an answer that is not terminal (the job still
\* running, a non-OK HTTP status, or a transport error of the poll request
\* itself) does not fail the invocation: the adapter goes on polling, and
\* ends only by a terminal status or by the deadline.
C11_NonTerminalPollContinues ==
  (adapter \in PollingAdapters /\ lastPoll \in {"running", "notOk", "throws"}) =>
     \/ pc \in {"sleep", "poll"}
     \/ (pc = "done" /\ failure = "timedOut")

\* C20: no status poll is sent once the deadline has elapsed: whenever a
\* poll request has just been sent, the time since polling began is strictly
\* less than the adapter's timeoutMs.
C20_NoPollAfterDeadline ==
  (adapter \in PollingAdapters /\ pc = "poll") =>
     now - startTime < TimeoutMs(adapter)

\* C12: within one request at most one network call is outstanding: a call
\* is issued only when every earlier one has been answered, no poll is
\* issued before the submit call has returned successfully, and a poll is
\* issued only after the previous poll's answer was processed.
C12_OneCallOutstanding ==
  /\ Len(inflight) <= 1
  /\ pc \in {"idle", "done", "backoff", "sleep"} => inflight = <<>>
  /\ pc \in {"create", "submit", "endpoint"} => inflight = <<"create">>
  /\ pc = "poll" => inflight = <<"poll">>
  /\ calls.poll > 0 => (createLog # <<>> /\ Last(createLog) = "ok")
  /\ (route = "replicate" /\ adapter # "none") => Len(createLog) + (IF pc \in {"create", "submit"} THEN 1 ELSE 0) = calls.create

C12_Witness ==
  /\ adapter = "fal" /\ pc = "poll"
  /\ calls.poll = 2
  /\ inflight = <<"poll">>

\* C14: in character generation a failed background removal (a non-OK
\* answer, a body without image, a thrown error) never turns the successful
\* generation into a failure: the response carries the generated image as it
\* was downloaded, and the cleaned image when the removal succeeded.
C14_CleanupFailureKeepsImage ==
  /\ cleanup # "none" => (handler = "character" /\ pc = "done" /\ calls.rembg = 1)
  /\ cleanup \in {"notOk", "noImage", "throws"} =>
       /\ failure = "none"
       /\ response.status = 200
       /\ response.imageUrl = "image"
       /\ ~HasError
  /\ cleanup = "image" => (response.imageUrl = "cleaned" /\ ~HasError)

C14_Witness ==
  /\ handler = "character" /\ pc = "done"
  /\ cleanup = "throws"
  /\ response.imageUrl = "image"

\* --------------------------------------------- claims on removeBackground

LastBy == resolvedBy[Len(resolvedBy)]

\* The call has resolved after looking at the pixels of an image.
Counted == stage = "resolved" /\ LastBy \in {"guard", "canvas"}

\* C13: removeBackground never fails: every call completes with an image,
\* and on an anomaly (the data does not decode, there is no 2d context, the
\* image has no area, the background model is rejected by the guard) the
\* value returned is the input itself.
C13_AlwaysResolvesWithInputOnAnomaly ==
  /\ [](stage = "resolved" =>
          /\ LastBy \in {"onerror", "noContext", "guard"} => result = input
          /\ LastBy = "canvas" => (result.w = input.w /\ result.h = input.h)
          /\ input = Undecodable => LastBy = "onerror")
  /\ ((stage = "loading") ~> (stage = "resolved"))

\* Pixels whose alpha in the value returned is below their alpha in the input.
Faded == {p \in Pixels(input) : result.px[p].a < input.px[p].a}

\* C15: if the fraction of pixels marked background after the vote is below
\* 5% or above 92%, removeBackground returns its input with no pixel
\* changed; if it is within [5%, 92%], it returns the carved image (for an
\* opaque input: the alpha of exactly the marked pixels is lowered).
C15_GuardOutsideFiveToNinetyTwo ==
  Counted =>
     LET n == input.w * input.h
         c == Last(removedCount)
     IN  /\ (100 * c < 5 * n \/ 100 * c > 92 * n) =>
              (LastBy = "guard" /\ result = input)
         /\ (100 * c >= 5 * n /\ 100 * c <= 92 * n) =>
              /\ LastBy = "canvas"
              /\ (\A p \in Pixels(input) : input.px[p].a = 255) =>
                   (result # input /\ Cardinality(Faded) = c)

C15_Witness ==
  /\ Counted /\ run = 1
  /\ LastBy = "guard"
  /\ Last(removedCount) > 0
  /\ 100 * Last(removedCount) < 5 * (input.w * input.h)
  /\ result = input

\* At least 95% of the pixels of img have one single colour.
MostlyFlat(img) ==
  \E c \in {img.px[p] : p \in Pixels(img)} :
     100 * Cardinality({p \in Pixels(img) : img.px[p] = c}) >=
       95 * (img.w * img.h)

Uniform(img) == \A p, q \in Pixels(img) : img.px[p] = img.px[q]

\* C16, as stated: every image in which at least 95% of the pixels have one
\* flat colour is returned unchanged, whatever the other pixels are.
C16_MostlyFlatUnchanged ==
  (Counted /\ MostlyFlat(input)) => result = input

\* C16, amended: an image of one single flat colour is returned unchanged;
\* an image in which at least 95% of the pixels have one colour is returned
\* unchanged when the pixels flagged after the vote are more than 92% (or
\* fewer than 5%) of it, and is carved otherwise, which happens when
\* flat-coloured pixels next to the remaining pixels fail the vote.
C16_FlatImageGuard ==
  (Counted /\ MostlyFlat(input)) =>
     LET n == input.w * input.h
         c == Last(removedCount)
     IN  /\ Uniform(input) => (result = input /\ c \in {0, n})
         /\ 100 * c > 92 * n => result = input
         /\ result # input =>
              /\ LastBy = "canvas"
              /\ 100 * c >= 5 * n /\ 100 * c <= 92 * n
              /\ ~Uniform(input)

C16_Witness ==
  /\ Counted /\ run = 1
  /\ input.w = RowLen
  /\ MostlyFlat(input)
  /\ LastBy = "canvas"
  /\ result # input

\* C17: running removeBackground on its own output flags almost the same
\* pixels: the count flagged by the second run differs from the count of the
\* first run by less than 1% of the image.
C17_SecondRunFlagsTheSame ==
  (stage = "resolved" /\ run = 2 /\ Len(removedCount) = 2) =>
     LET n == input.w * input.h
         delta == IF removedCount[2] >= removedCount[1]
                  THEN removedCount[2] - removedCount[1]
                  ELSE removedCount[1] - removedCount[2]
     IN  100 * delta < n

\* Euclidean RGB distance, squared.
EuclidSq(c, e) ==
  (c.r - e.r) * (c.r - e.r) + (c.g - e.g) * (c.g - e.g) + (c.b - e.b) * (c.b - e.b)

\* Colour c is within (squared) distance dsq of no edge estimate in es.
FarFromEdges(es, c, dsq) == \A i \in 1..Len(es) : EuclidSq(c, es[i]) >= dsq

AtEdgeColour(es, c) == \E i \in 1..Len(es) : EuclidSq(c, es[i]) = 0

\* The accepted pixels of img.
Acceptable(img, es) == {p \in Pixels(img) : Accept(img.px[p], es)}

\* C18, as stated: in the (carved) image returned, every pixel whose RGB
\* equals an edge-colour estimate exactly has alpha 0, wherever it lies.
C18_EdgeColourIsTransparent ==
  (stage = "resolved" /\ LastBy = "canvas") =>
     LET es == edgeSamples(input)
     IN  \A p \in Pixels(input) :
            AtEdgeColour(es, input.px[p]) => result.px[p].a = 0

\* C18, amended: in the carved image a pixel whose RGB equals an edge-colour
\* estimate has alpha 0 when it was flagged background, and its original alpha
\* otherwise; it is not flagged when it is not accepted (saturated colour on
\* an achromatic background), when it is off the border with no accepted
\* 4-neighbour, or when fewer than 65% of its 7 x 7 neighbourhood is accepted.
C18_FlaggedEdgeColourIsTransparent ==
  (stage = "resolved" /\ LastBy = "canvas") =>
     LET es == edgeSamples(input)
         ok == Acceptable(input, es)
     IN  \A p \in Pixels(input) :
            AtEdgeColour(es, input.px[p]) =>
               /\ result.px[p].a \in {0, input.px[p].a}
               /\ p \notin ok => result.px[p].a = input.px[p].a
               /\ (p \notin Border(input) /\ Neighbours(input, p) \cap ok = {}) =>
                    result.px[p].a = input.px[p].a
               /\ 100 * Cardinality(Window(input, p) \cap ok)
                    < 65 * Cardinality(Window(input, p)) =>
                    result.px[p].a = input.px[p].a
               /\ (p \in ok /\ Window(input, p) \subseteq ok
                     /\ Window(input, p) \subseteq Border(input)) =>
                    result.px[p].a = 0

C18_Witness ==
  /\ stage = "resolved" /\ run = 1 /\ LastBy = "canvas"
  /\ LET es == edgeSamples(input)
         ok == Acceptable(input, es)
     IN  \E p, q \in Pixels(input) :
            /\ AtEdgeColour(es, input.px[p]) /\ result.px[p].a = 0
            /\ AtEdgeColour(es, input.px[q]) /\ result.px[q].a = 255
            /\ q \in ok

\* C19: every pixel whose Euclidean RGB distance to the nearest edge-colour
\* estimate is at least threshold + feather keeps its original alpha in the
\* image returned.
C19_FarPixelsKeepAlpha ==
  (stage = "resolved" /\ input # Undecodable) =>
     LET es == edgeSamples(input)
         reach == threshold(es) + feather
     IN  \A p \in Pixels(input) :
            FarFromEdges(es, input.px[p], reach * reach) =>
               result.px[p].a = input.px[p].a

C19_Witness ==
  /\ stage = "resolved" /\ run = 1 /\ LastBy = "canvas"
  /\ LET es == edgeSamples(input)
         reach == threshold(es) + feather
     IN  \E p \in Pixels(input) :
            /\ FarFromEdges(es, input.px[p], reach * reach)
            /\ result.px[p].a = input.px[p].a
  /\ \E q \in Pixels(input) : result.px[q].a = 0

\* ------------------------------------ claims on the adapters' call order

\* C21: in replicateRunVersion, a create answer that already carries a
\* terminal state (succeeded, failed or canceled) resolves the invocation
\* with no status poll; any other create answer is followed by status polls.
C21_TerminalCreateShortCircuits ==
  (adapter = "replicate" /\ job.state # "none") =>
     /\ job.state \in {"succeeded", "failed", "canceled"} =>
          (calls.poll = 0 /\ pc \notin {"sleep", "poll"})
     /\ (job.state = "starting" /\ pc \in {"download", "rembg", "done"}) =>
          calls.poll >= 1

\* The COMPLETED payload carries a reference: an s3_url image, or (with no
\* image of a known type) a message that is a URL.
IsReference(c) ==
  c.images = "s3_url" \/ (c.images # "base64" /\ c.message = "http")

\* The COMPLETED payload carries the image inline.
IsInline(c) ==
  c.images = "base64" \/ (c.images # "s3_url" /\ c.message = "b64")

\* C22: in runpodComfyUIImageEdit a download is issued if and only if the
\* completion payload is a reference, and then exactly once; an inline image
\* is returned with no further network call; a completion with neither fails.
C22_DownloadIffReference ==
  adapter = "runpod" =>
     /\ completion = NoCompletion => calls.download = 0
     /\ completion # NoCompletion =>
          /\ calls.download = (IF IsReference(completion) THEN 1 ELSE 0)
          /\ IsInline(completion) =>
               /\ pc = "done" /\ inflight = <<>>
               /\ response.status = 200 /\ response.imageUrl = "image"
          /\ (~IsReference(completion) /\ ~IsInline(completion)) =>
               /\ pc = "done" /\ inflight = <<>>
               /\ failure = "noData" /\ response.status = 500

C22_Witness ==
  /\ adapter = "runpod" /\ pc = "done"
  /\ completion.images = "other" /\ completion.message = "http"
  /\ calls.download = 1
  /\ response.imageUrl = "image"

\* C23: in falWan25ImageEdit the calls go submit, status polls, result
\* fetch, download: the result is fetched only after a poll reported
\* completion and at most once, the download follows the result fetch, and
\* the status and result URLs are the ones submit returned whenever it
\* returned them (and are built from the request id otherwise).
C23_QueueCallOrder ==
  adapter = "fal" =>
     /\ calls.create = 1
     /\ calls.result <= 1 /\ calls.download <= 1
     /\ calls.poll >= 1 =>
          (job.state = "queued" /\ createLog = <<"ok">>)
     /\ calls.result = 1 => (lastPoll = "succeeded" /\ calls.poll >= 1)
     /\ pc = "result" => calls.download = 0
     /\ calls.download = 1 => calls.result = 1
     /\ job.state = "queued" =>
          /\ urls.status = (IF job.statusUrl THEN "returned" ELSE "built")
          /\ urls.result = (IF job.resultUrl THEN "returned" ELSE "built")
     /\ job.state = "none" => (urls = NoUrls /\ calls.poll = 0)

C23_Witness ==
  /\ adapter = "fal" /\ pc = "done"
  /\ job.statusUrl /\ ~job.resultUrl
  /\ urls.status = "returned" /\ urls.result = "built"
  /\ calls.poll >= 2 /\ calls.result = 1 /\ calls.download = 1
  /\ response.imageUrl = "image"

RECURSIVE SumTo(_, _)
SumTo(q, n) == IF n = 0 THEN 0 ELSE q[n] + SumTo(q, n - 1)

RateLimitedSoFar == Cardinality({i \in 1..Len(createLog) : createLog[i] = "rateLimited"})

\* C24: the wait before a retry grows linearly: after the n-th rate-limited
\* attempt (n = 1, 2) replicateRunVersion waits 2000 * n ms before attempt
\* n + 1, and no wait follows the last attempt.
C24_BackoffGrowsLinearly ==
  adapter = "replicate" =>
     /\ Len(waits) <= MaxAttempts - 1
     /\ \A n \in 1..Len(waits) : waits[n] = 2000 * n
     /\ Len(waits) = (IF RateLimitedSoFar >= MaxAttempts
                      THEN MaxAttempts - 1 ELSE RateLimitedSoFar)
     /\ pc = "backoff" => Len(waits) = attempt + 1
     /\ pc = "create" => (Len(waits) = attempt /\ now = SumTo(waits, Len(waits)))

C24_Witness ==
  /\ adapter = "replicate" /\ pc = "done"
  /\ createLog = <<"rateLimited", "rateLimited", "rateLimited">>
  /\ waits = <<2000, 4000>>
  /\ failure = "rateLimited"

\* ------------------------------------ claims on the steps of the matting

\* C25: the distance threshold depends on the four edge-colour estimates
\* only: 80 for a chroma-key green background, 70 for an achromatic bright
\* one, 110 for an achromatic dark one (mean edge brightness < 50), 70
\* otherwise.
C25_ThresholdOfEdgeColours ==
  Counted =>
     LET es == edgeSamples(input)
     IN  threshold(es) =
           (IF bgIsGreen(es) THEN 80
            ELSE IF bgIsAchromatic(es) /\ ~bgIsDark(es) THEN 70
            ELSE IF bgIsAchromatic(es) /\ bgIsDark(es) THEN 110
            ELSE 70)

\* max - min of the channels is below 30 and below 18% of max, or max <= 10.
LowSaturation(c) ==
  LET hi == Max3(c.r, c.g, c.b)
      lo == Min3(c.r, c.g, c.b)
  IN  hi <= 10 \/ (hi - lo < 30 /\ 100 * (hi - lo) < 18 * hi)

RoundedAlpha(dsq, t) ==
  CHOOSE k \in 0..255 :
     /\ (34 * t + 2 * k - 1) * (34 * t + 2 * k - 1) <= 1156 * dsq
     /\ 1156 * dsq < (34 * t + 2 * k + 1) * (34 * t + 2 * k + 1)

\* C27: carving only lowers opacity: a confirmed-background pixel gets alpha
\* 0 when its distance is below threshold and min(old alpha, round((distance
\* - threshold) / feather * 255)) otherwise, every other pixel keeps its
\* alpha, so no output alpha exceeds the input alpha or leaves 0..255.
C27_CarvingOnlyLowersAlpha ==
  Counted =>
     /\ \A p \in Pixels(input) :
           /\ result.px[p].a <= input.px[p].a
           /\ result.px[p].a \in 0..255
     /\ LastBy = "canvas" =>
          LET es == edgeSamples(input)
              t == threshold(es)
              bg == isBackground(input, borderConnected(input, rawBg(input, es)))
          IN  \A p \in Pixels(input) :
                 LET old == input.px[p].a
                     dsq == minEdgeDist(input.px[p], es)
                 IN  result.px[p].a =
                       (IF p \notin bg THEN old
                        ELSE IF dsq < t * t THEN 0
                        ELSE IF RoundedAlpha(dsq, t) < old
                        THEN RoundedAlpha(dsq, t) ELSE old)

C27_Witness ==
  /\ Counted /\ run = 1 /\ LastBy = "canvas"
  /\ \E p, q \in Pixels(input) :
        /\ input.px[p] = Veil /\ result.px[p].a = Veil.a
        /\ p \in isBackground(input, borderConnected(input,
                                 rawBg(input, edgeSamples(input))))
        /\ input.px[q].a = 255 /\ result.px[q].a = 0

\* C28: the border-connectivity pass removes nothing: the pixels it marks
\* are exactly the pixels the border-seeded flood fill accepted.
C28_ConnectivityPassKeepsAll ==
  Counted =>
     LET raw == rawBg(input, edgeSamples(input))
     IN  borderConnected(input, raw) = raw

C28_Witness ==
  /\ Counted /\ run = 1
  /\ LET es == edgeSamples(input)
         raw == rawBg(input, es)
     IN  /\ \E p \in Pixels(input) \ raw : Accept(input.px[p], es)
         /\ raw # {}
         /\ borderConnected(input, raw) = raw

\* ------------------------------------------- claims on the auto-save hook

\* C29: whenever an onSave call is in flight the status is 'saving', under
\* every interleaving of triggerSave calls, timer firings and save
\* completions.
C29_SavingWhileInFlight ==
  saving > 0 => autoSaveStatus = "saving"

\* --------------------------------------------------- claims on the wallet

\* No wallet call is between its read and its write.
WalletQuiet == \A p \in Callers : wpc[p] \notin {"reading", "writing"}

\* C30: under every interleaving of deductCoins and addCoins calls on one
\* wallet the balance is never negative and, once the calls have returned,
\* it is the opening balance plus the amounts added minus the amounts of the
\* deductCoins calls that returned true.
C30_BalanceAccountsForEveryCall ==
  /\ coins >= 0
  /\ WalletQuiet => coins = OpeningCoins + credited - debited

====
